---- MODULE Spec2Model ----
(***************************************************************************)
(* Identity resolution and conflict resolution core of the customer-360    *)
(* profile aggregator (HolisticCustomerProfileAggregator).                 *)
(*                                                                         *)
(* Numbers: a claim confidence is held in tenths (9 is 0.9), a strategy    *)
(* weight in halves (1 is 0.5, 2 is 1.0), so an accumulated vote is held   *)
(* in twentieths (21 is 1.05).  Every product and sum of the levels used   *)
(* here is exact in these units.                                           *)
(***************************************************************************)
EXTENDS Integers, Sequences, FiniteSets, TLC

VARIABLES
    \* ---- #resolveCustomerIdentity ----
    initialIdentifier,   \* the initialIdentifier argument
    strategyState,       \* per strategy promise: "pending" | "fulfilled" | "rejected"
    resolutionResults,   \* per strategy: its resolution.identities, in Map order
    idPc,                \* position of #resolveCustomerIdentity
    idError,             \* the error the call failed with, or "none"
    confidenceWeights,   \* the weights #calculateResolutionWeights returned
    identityVotes,       \* the Map identityVotes, in insertion order
    consensusIdentity,   \* what #establishConsensusIdentity returned
    resolutionConfidence,\* the resolutionConfidence of the returned result
    \* ---- CustomerIdentityGraph ----
    graphNodes,          \* identity -> node metadata
    graphEdges,          \* the edges, in insertion order
    graphError,          \* the error of the last graph call, or "none"
    graphCall,           \* the last direct call on the graph and its arguments
    \* ---- #resolveProfileConflicts ----
    profileDimensions,   \* the profileDimensions argument
    detectedConflicts,   \* what detectConflicts returned: [dimension, conflicts] pairs
    pendingConflicts,    \* the conflicts the two loops have still to visit, in order
    resolvedProfile,     \* the object resolvedProfile: key -> value
    resolutionLog,       \* the array resolutionLog
    remainingConflicts,  \* what detectRemainingConflicts returned
    cfPc,                \* position of #resolveProfileConflicts
    cfError              \* the error the call failed with, or "none"

idVars == <<initialIdentifier, strategyState, resolutionResults, idPc, idError,
            confidenceWeights, identityVotes, consensusIdentity, resolutionConfidence>>
graphVars == <<graphNodes, graphEdges, graphError>>
cfVars == <<profileDimensions, detectedConflicts, pendingConflicts, resolvedProfile,
            resolutionLog, remainingConflicts, cfPc, cfError>>
vars == <<idVars, graphVars, graphCall, cfVars>>

----------------------------------------------------------------------------
\* Bounds and input domains

\* total number of claims the strategies of one call return
MaxClaims == 3
\* number of edges a graph built by direct addNode/addEdge calls holds
MaxEdges == 2

\* the four strategies pushed into resolutionPromises, in that order
StrategyNames == <<"email", "device", "behavioral", "transaction">>
Strategies == 1..Len(StrategyNames)

\* identity keys, listed in lexicographic order
IdentityKeys == <<"A", "B">>
Identities == {IdentityKeys[k] : k \in 1..Len(IdentityKeys)}
KeyRank(id) == CHOOSE k \in 1..Len(IdentityKeys) : IdentityKeys[k] = id
\* an initial identifier is one of the claimable keys or a key nobody claims
InitialIdentifiers == {"A", "U"}

ConfidenceLevels == {3, 8, 9}   \* 0.3, 0.8, 0.9
WeightLevels == {1, 2}          \* 0.5, 1.0
\* what #calculateResolutionWeights can return (the method is not part of the
\* sources; from the design: uniform by default, or calibrated): all
\* strategies at 1.0, or one of them down-weighted to 0.5
WeightVectors ==
    {w \in [1..Len(StrategyNames) -> WeightLevels] :
        \A i, j \in 1..Len(StrategyNames) : (w[i] = 1 /\ w[j] = 1) => i = j}
FullConfidence == 10            \* 1.0

NoIdentity == "none"
\* a confidence is held as the pair it is the quotient of: an accumulated
\* vote (in twentieths) over a sum of strategy weights (in halves)
NoConfidence == [vote |-> 0, weights |-> 0]

----------------------------------------------------------------------------
\* Helpers

Min(a, b) == IF a < b THEN a ELSE b

RECURSIVE SumSeq(_)
SumSeq(s) == IF s = <<>> THEN 0 ELSE Head(s) + SumSeq(Tail(s))

TotalClaims(results) == SumSeq([i \in Strategies |-> Len(results[i])])

\* the contents a strategy's resolution.identities Map can have: at most one
\* entry per identity key, in any insertion order, at most maxLen entries
ClaimMaps(source, maxLen) ==
    UNION { { [j \in 1..k |-> [identity |-> ids[j], confidence |-> cs[j], source |-> source]] :
                ids \in {s \in [1..k -> Identities] : \A a, b \in 1..k : a # b => s[a] # s[b]},
                cs \in [1..k -> ConfidenceLevels] } :
            k \in 0..Min(maxLen, Len(IdentityKeys)) }

----------------------------------------------------------------------------
\* CustomerIdentityGraph (the class is not part of the sources; from the
\* design: addNode inserts or merges keeping the higher confidence, addEdge
\* fails with DanglingReferenceError when an endpoint is absent)

EmptyGraph == [nodes |-> <<>>, edges |-> <<>>, error |-> "none"]

HasNode(g, id) == id \in DOMAIN g.nodes

\* re-adding a key replaces the node's metadata by the new one
addIdentityNodeOverwrite(g, id, metadata) ==
    [g EXCEPT !.nodes = [k \in DOMAIN g.nodes \cup {id} |->
                            IF k = id
                            THEN [confidence |-> metadata.confidence,
                                  originSources |-> {metadata.source}]
                            ELSE g.nodes[k]],
              !.error = "none"]

addIdentityNode(g, id, metadata) ==
    LET node == IF HasNode(g, id)
                THEN [confidence |-> IF metadata.confidence > g.nodes[id].confidence
                                     THEN metadata.confidence
                                     ELSE g.nodes[id].confidence,
                      originSources |-> g.nodes[id].originSources \cup {metadata.source}]
                ELSE [confidence |-> metadata.confidence,
                      originSources |-> {metadata.source}]
    IN [g EXCEPT !.nodes = [k \in DOMAIN g.nodes \cup {id} |->
                               IF k = id THEN node ELSE g.nodes[k]],
                 !.error = "none"]

\* the edge is appended without looking at its endpoints
addIdentityEdgeUnchecked(g, from, to, metadata) ==
    [g EXCEPT !.edges = Append(g.edges,
                            [from |-> from, to |-> to, confidence |-> metadata.confidence]),
              !.error = "none"]

addIdentityEdge(g, from, to, metadata) ==
    IF HasNode(g, from) /\ HasNode(g, to)
    THEN [g EXCEPT !.edges = Append(g.edges,
                                [from |-> from, to |-> to, confidence |-> metadata.confidence]),
                   !.error = "none"]
    ELSE [g EXCEPT !.error = "DanglingReferenceError"]

----------------------------------------------------------------------------
\* #establishConsensusIdentity

\* identityVotes.get(identity): position of the entry, 0 when absent
VoteIndex(votes, id) ==
    IF \E k \in 1..Len(votes) : votes[k].identity = id
    THEN CHOOSE k \in 1..Len(votes) : votes[k].identity = id
    ELSE 0

\* the vote is accumulated without the strategy weight
CastVoteUnweighted(votes, weight, claim) ==
    LET k == VoteIndex(votes, claim.identity)
    IN IF k = 0
       THEN Append(votes, [identity |-> claim.identity,
                           totalWeight |-> claim.confidence,
                           sources |-> <<claim.source>>])
       ELSE [votes EXCEPT ![k] = [identity |-> claim.identity,
                                  totalWeight |-> @.totalWeight + claim.confidence,
                                  sources |-> Append(@.sources, claim.source)]]

\* the entry's vote is set to the claim's product instead of raised by it
CastVoteOverwrite(votes, weight, claim) ==
    LET k == VoteIndex(votes, claim.identity)
    IN IF k = 0
       THEN Append(votes, [identity |-> claim.identity,
                           totalWeight |-> weight * claim.confidence,
                           sources |-> <<claim.source>>])
       ELSE [votes EXCEPT ![k] = [identity |-> claim.identity,
                                  totalWeight |-> weight * claim.confidence,
                                  sources |-> Append(@.sources, claim.source)]]

\* body of the inner loop: get-or-default, add weight * confidence, push the
\* source, set (a new key is appended to the Map's order)
CastVote(votes, weight, claim) ==
    LET k == VoteIndex(votes, claim.identity)
    IN IF k = 0
       THEN Append(votes, [identity |-> claim.identity,
                           totalWeight |-> 0 + weight * claim.confidence,
                           sources |-> <<claim.source>>])
       ELSE [votes EXCEPT ![k] = [identity |-> claim.identity,
                                  totalWeight |-> @.totalWeight + weight * claim.confidence,
                                  sources |-> Append(@.sources, claim.source)]]

RECURSIVE CastVotes(_, _, _)
CastVotes(votes, weight, claims) ==
    IF claims = <<>> THEN votes
    ELSE CastVotes(CastVote(votes, weight, Head(claims)), weight, Tail(claims))

\* the outer loop, i = from .. resolutionResults.length - 1
RECURSIVE AccumulateVotes(_, _, _, _)
AccumulateVotes(votes, results, weights, from) ==
    IF from > Len(StrategyNames) THEN votes
    ELSE AccumulateVotes(CastVotes(votes, weights[from], results[from]),
                         results, weights, from + 1)

\* Array.prototype.sort with (a, b) => b.totalWeight - a.totalWeight: a stable
\* sort, descending by totalWeight (insertion of each entry after the entries
\* that are not smaller)
RECURSIVE InsertByWeight(_, _)
InsertByWeight(sorted, e) ==
    IF sorted = <<>> THEN <<e>>
    ELSE IF Head(sorted).totalWeight >= e.totalWeight
         THEN <<Head(sorted)>> \o InsertByWeight(Tail(sorted), e)
         ELSE <<e>> \o sorted

RECURSIVE SortByWeightDesc(_)
SortByWeightDesc(entries) ==
    IF entries = <<>> THEN <<>>
    ELSE InsertByWeight(SortByWeightDesc(SubSeq(entries, 1, Len(entries) - 1)),
                        entries[Len(entries)])

\* the entries are sorted ascending ((a, b) => a.totalWeight - b.totalWeight)
BottomIdentity(votes) ==
    IF votes = <<>> THEN "TypeError"
    ELSE SortByWeightDesc(votes)[Len(votes)].identity

\* .slice(0, 1)[0][0]; on an empty Map slice(0,1)[0] is undefined and the
\* index throws a TypeError
TopIdentity(votes) ==
    IF votes = <<>> THEN "TypeError" ELSE Head(SortByWeightDesc(votes)).identity

\* #calculateOverallResolutionConfidence (the method is not part of the
\* sources, only its call with the identity graph is; from the design: the
\* accumulated vote of the winning identity over the sum of all strategy
\* weights)
OverallResolutionConfidence(votes, weights, winner) ==
    [vote |-> votes[VoteIndex(votes, winner)].totalWeight, weights |-> SumSeq(weights)]

----------------------------------------------------------------------------
\* #resolveCustomerIdentity

IdInit ==
    /\ initialIdentifier = NoIdentity
    /\ strategyState = [i \in Strategies |-> "idle"]
    /\ resolutionResults = [i \in Strategies |-> <<>>]
    /\ idPc = "idle"
    /\ idError = "none"
    /\ confidenceWeights = [i \in Strategies |-> 0]
    /\ identityVotes = <<>>
    /\ consensusIdentity = NoIdentity
    /\ resolutionConfidence = NoConfidence

GraphInit ==
    /\ graphNodes = <<>>
    /\ graphEdges = <<>>
    /\ graphError = "none"
    /\ graphCall = [op |-> "none"]

\* lines 28-40: the call starts the four strategies and awaits them all
ResolveCustomerIdentity(id) ==
    /\ idPc = "idle"
    /\ initialIdentifier' = id
    /\ strategyState' = [i \in Strategies |-> "pending"]
    /\ idPc' = "awaiting"
    /\ UNCHANGED <<resolutionResults, idError, confidenceWeights, identityVotes,
                   consensusIdentity, resolutionConfidence, graphVars, graphCall, cfVars>>

\* a strategy promise fulfils with its claims
StrategyFulfils(i) ==
    /\ strategyState[i] = "pending"
    /\ \E claims \in ClaimMaps(StrategyNames[i], MaxClaims - TotalClaims(resolutionResults)) :
          resolutionResults' = [resolutionResults EXCEPT ![i] = claims]
    /\ strategyState' = [strategyState EXCEPT ![i] = "fulfilled"]
    /\ UNCHANGED <<initialIdentifier, idPc, idError, confidenceWeights, identityVotes,
                   consensusIdentity, resolutionConfidence, graphVars, graphCall, cfVars>>

\* a strategy promise rejects (the strategy threw)
StrategyRejects(i) ==
    /\ strategyState[i] = "pending"
    /\ strategyState' = [strategyState EXCEPT ![i] = "rejected"]
    /\ UNCHANGED <<initialIdentifier, resolutionResults, idPc, idError, confidenceWeights,
                   identityVotes, consensusIdentity, resolutionConfidence, graphVars, graphCall, cfVars>>

\* await Promise.all(resolutionPromises): rejects as soon as one promise has
\* rejected, whatever the others did or will do
AwaitAllRejects ==
    /\ idPc = "awaiting"
    /\ \E i \in Strategies : strategyState[i] = "rejected"
    /\ idPc' = "failed"
    /\ idError' = "StrategyError"
    /\ UNCHANGED <<initialIdentifier, strategyState, resolutionResults, confidenceWeights,
                   identityVotes, consensusIdentity, resolutionConfidence, graphVars, graphCall, cfVars>>

\* the await resumes as soon as one promise has fulfilled
AwaitAnyFulfils ==
    /\ idPc = "awaiting"
    /\ \E i \in Strategies : strategyState[i] = "fulfilled"
    /\ idPc' = "joined"
    /\ UNCHANGED <<initialIdentifier, strategyState, resolutionResults, idError,
                   confidenceWeights, identityVotes, consensusIdentity, resolutionConfidence,
                   graphVars, graphCall, cfVars>>

\* await Promise.all(resolutionPromises): fulfils once every promise has
AwaitAllFulfils ==
    /\ idPc = "awaiting"
    /\ \A i \in Strategies : strategyState[i] = "fulfilled"
    /\ idPc' = "joined"
    /\ UNCHANGED <<initialIdentifier, strategyState, resolutionResults, idError,
                   confidenceWeights, identityVotes, consensusIdentity, resolutionConfidence, graphVars, graphCall, cfVars>>

\* await this.#establishConsensusIdentity(resolutionResults)
EstablishConsensusIdentity ==
    /\ idPc = "joined"
    /\ \E weights \in WeightVectors :
          LET votes == AccumulateVotes(<<>>, resolutionResults, weights, 1)
              top == TopIdentity(votes)
          IN /\ confidenceWeights' = weights
             /\ identityVotes' = votes
             /\ IF top = "TypeError"
                THEN /\ idPc' = "failed"
                     /\ idError' = "TypeError"
                     /\ consensusIdentity' = consensusIdentity
                ELSE /\ idPc' = "voted"
                     /\ idError' = idError
                     /\ consensusIdentity' = top
    /\ UNCHANGED <<initialIdentifier, strategyState, resolutionResults, resolutionConfidence,
                   graphVars, graphCall, cfVars>>

\* all claims of the call, in the order the two nested loops visit them
RECURSIVE AllClaims(_, _)
AllClaims(results, from) ==
    IF from > Len(StrategyNames) THEN <<>>
    ELSE results[from] \o AllClaims(results, from + 1)

\* the edge loop: every await identityGraph.addIdentityEdge(...) in turn; the
\* first one that throws ends the loop with the graph as it stands
RECURSIVE AddClaimEdges(_, _, _)
AddClaimEdges(g, from, claims) ==
    IF claims = <<>> THEN g
    ELSE LET g1 == addIdentityEdge(g, from, Head(claims).identity,
                                   [confidence |-> Head(claims).confidence])
         IN IF g1.error # "none" THEN g1 ELSE AddClaimEdges(g1, from, Tail(claims))

\* lines 43-65: build the identity graph and return
BuildIdentityGraph ==
    /\ idPc = "voted"
    /\ LET g0 == addIdentityNode(EmptyGraph, initialIdentifier,
                                 [source |-> "initial", confidence |-> FullConfidence])
           g == AddClaimEdges(g0, initialIdentifier, AllClaims(resolutionResults, 1))
       IN /\ graphNodes' = g.nodes
          /\ graphEdges' = g.edges
          /\ graphError' = g.error
          /\ IF g.error # "none"
             THEN /\ idPc' = "failed"
                  /\ idError' = g.error
                  /\ resolutionConfidence' = resolutionConfidence
             ELSE /\ idPc' = "returned"
                  /\ idError' = idError
                  /\ resolutionConfidence' =
                        OverallResolutionConfidence(identityVotes, confidenceWeights,
                                                    consensusIdentity)
    /\ UNCHANGED <<initialIdentifier, strategyState, resolutionResults, confidenceWeights,
                   identityVotes, consensusIdentity, graphCall, cfVars>>

IdNext ==
    \/ \E id \in InitialIdentifiers : ResolveCustomerIdentity(id)
    \/ \E i \in Strategies : StrategyFulfils(i)
    \/ \E i \in Strategies : StrategyRejects(i)
    \/ AwaitAllRejects
    \/ AwaitAllFulfils
    \/ EstablishConsensusIdentity
    \/ BuildIdentityGraph

----------------------------------------------------------------------------
\* ProfileConflictDetectionEngine and the four resolvers (the classes are not
\* part of the sources; from the design)

\* dimension and attribute names, each listed in sorted order
DimensionNames == <<"behavioral", "demographic">>
AttributeNames == <<"city", "income">>
Dimensions == {DimensionNames[k] : k \in 1..Len(DimensionNames)}
Attributes == {AttributeNames[k] : k \in 1..Len(AttributeNames)}
DimensionRank(d) == CHOOSE k \in 1..Len(DimensionNames) : DimensionNames[k] = d
AttributeRank(a) == CHOOSE k \in 1..Len(AttributeNames) : AttributeNames[k] = a

\* total number of observed candidates in one profile
MaxObservations == 4
\* number of candidates observed for one attribute
MaxCandidates == 2

AttributeType(a) == IF a = "income" THEN "numeric" ELSE "freetext"
\* income in thousands
Numeric(n) == [numeric |-> n]
Text(t) == [text |-> t]
AttributeValues(a) ==
    IF a = "income" THEN {Numeric(5), Numeric(7)} ELSE {Text("NYC"), Text("LA")}

ResolutionStrategyNames ==
    {"temporal_recency", "source_reliability", "statistical_consensus",
     "contextual_plausibility"}

Undefined == [undefined |-> TRUE]

\* a profile: dimension -> attribute -> candidate values, one per source
\* (<<>> when the attribute was not observed)
Slots == Dimensions \X Attributes
CandidateSeqs(a) == UNION {[1..n -> AttributeValues(a)] : n \in 0..MaxCandidates}
RECURSIVE Observations(_, _)
Observations(profile, slots) ==
    IF slots = {} THEN 0
    ELSE LET s == CHOOSE t \in slots : TRUE
         IN Len(profile[s[1]][s[2]]) + Observations(profile, slots \ {s})
Profiles ==
    {p \in [Dimensions -> {f \in [Attributes -> UNION {CandidateSeqs(a) : a \in Attributes}] :
                              \A a \in Attributes : f[a] \in CandidateSeqs(a)}] :
        Observations(p, Slots) <= MaxObservations}

DistinctValues(candidates) == {candidates[k] : k \in 1..Len(candidates)}
\* more than one distinct value among the candidates
IsConflict(candidates) == Cardinality(DistinctValues(candidates)) > 1

ConflictOf(profile, d, a) ==
    [dimension |-> d, attribute |-> a, candidates |-> profile[d][a]]
ConflictsIn(profile, d) ==
    {ConflictOf(profile, d, a) : a \in {b \in Attributes : IsConflict(profile[d][b])}}

\* the orders a set can be enumerated in
Enumerations(S) ==
    {q \in [1..Cardinality(S) -> S] : \A i, j \in 1..Cardinality(S) : i # j => q[i] # q[j]}

\* detectConflicts(profileDimensions): one [dimension, conflicts] pair per
\* dimension that has a conflict; the order of the pairs and of the conflicts
\* of a pair is the detector's
DetectConflicts(profile) ==
    LET dims == {d \in Dimensions : ConflictsIn(profile, d) # {}}
    IN {groups \in [1..Cardinality(dims) ->
                      UNION {{[dimension |-> d, conflicts |-> cs] :
                                cs \in Enumerations(ConflictsIn(profile, d))} : d \in dims}] :
          \A i, j \in 1..Cardinality(dims) : i # j => groups[i].dimension # groups[j].dimension}

\* detectRemainingConflicts(resolvedProfile): the detector run on the resolved
\* profile, which holds one value under each of its keys
DetectRemainingConflicts(resolved) ==
    {k \in DOMAIN resolved : IsConflict(<<resolved[k]>>)}

\* resolve(conflict) of the resolver named by strategy: the values it can
\* resolve to (which candidate wins rests on observedAt, sourceReliability
\* and plausibility checks), or {} when the strategy does not apply to the
\* attribute's type and resolve throws StrategyMismatchError
Mean(candidates) ==
    Numeric(SumSeq([k \in 1..Len(candidates) |-> candidates[k].numeric]) \div Len(candidates))
ResolvedValues(strategy, conflict) ==
    IF strategy = "statistical_consensus"
    THEN IF AttributeType(conflict.attribute) = "numeric"
         THEN {Mean(conflict.candidates)}
         ELSE {}
    ELSE DistinctValues(conflict.candidates)

----------------------------------------------------------------------------
\* #resolveProfileConflicts

CfInit ==
    /\ profileDimensions = <<>>
    /\ detectedConflicts = <<>>
    /\ pendingConflicts = <<>>
    /\ resolvedProfile = <<>>
    /\ resolutionLog = <<>>
    /\ remainingConflicts = {}
    /\ cfPc = "idle"
    /\ cfError = "none"

\* the conflicts in the order the two nested loops visit them
RECURSIVE LoopOrder(_)
LoopOrder(groups) ==
    IF groups = <<>> THEN <<>> ELSE Head(groups).conflicts \o LoopOrder(Tail(groups))

\* resolvedProfile[dimension] = resolution.resolvedValue
SetResolved(resolved, dimension, value) ==
    [k \in DOMAIN resolved \cup {dimension} |-> IF k = dimension THEN value ELSE resolved[k]]

\* what the resolved profile holds for an attribute: the loop stores every
\* resolved value under the key of the conflict's dimension alone
ResolvedAttribute(resolved, dimension, attribute) ==
    IF dimension \in DOMAIN resolved THEN resolved[dimension] ELSE Undefined

\* resolutionLog.push({dimension, conflict: conflict.description, strategy, ...})
LogEntry(conflict, strategy) ==
    [dimension |-> conflict.dimension, conflict |-> conflict.attribute, strategy |-> strategy]

\* lines 115-127: the call runs the detector and starts with an empty
\* resolvedProfile and resolutionLog
ResolveProfileConflicts(profile) ==
    /\ cfPc = "idle"
    /\ profileDimensions' = profile
    /\ \E groups \in DetectConflicts(profile) :
          /\ detectedConflicts' = groups
          /\ pendingConflicts' = LoopOrder(groups)
    /\ resolvedProfile' = <<>>
    /\ resolutionLog' = <<>>
    /\ cfPc' = "resolving"
    /\ UNCHANGED <<remainingConflicts, cfError, idVars, graphVars, graphCall>>

\* lines 130-141: one pass of the inner loop whose resolve(conflict) returns
ResolveConflict(strategy) ==
    /\ cfPc = "resolving"
    /\ pendingConflicts # <<>>
    /\ LET conflict == Head(pendingConflicts)
       IN \E value \in ResolvedValues(strategy, conflict) :
             /\ resolvedProfile' = SetResolved(resolvedProfile, conflict.dimension, value)
             /\ resolutionLog' = Append(resolutionLog, LogEntry(conflict, strategy))
    /\ pendingConflicts' = Tail(pendingConflicts)
    /\ UNCHANGED <<profileDimensions, detectedConflicts, remainingConflicts, cfPc, cfError,
                   idVars, graphVars, graphCall>>

\* lines 131-132: one pass of the inner loop whose resolve(conflict) throws;
\* nothing in the loops catches it, the call rejects
ResolveConflictThrows(strategy) ==
    /\ cfPc = "resolving"
    /\ pendingConflicts # <<>>
    /\ ResolvedValues(strategy, Head(pendingConflicts)) = {}
    /\ cfPc' = "failed"
    /\ cfError' = "StrategyMismatchError"
    /\ UNCHANGED <<profileDimensions, detectedConflicts, pendingConflicts, resolvedProfile,
                   resolutionLog, remainingConflicts, idVars, graphVars, graphCall>>

\* lines 145-149: the loops are over, the call returns
ReturnResolution ==
    /\ cfPc = "resolving"
    /\ pendingConflicts = <<>>
    /\ remainingConflicts' = DetectRemainingConflicts(resolvedProfile)
    /\ cfPc' = "returned"
    /\ UNCHANGED <<profileDimensions, detectedConflicts, pendingConflicts, resolvedProfile,
                   resolutionLog, cfError, idVars, graphVars, graphCall>>

CfNext ==
    \/ \E profile \in Profiles : ResolveProfileConflicts(profile)
    \/ \E strategy \in ResolutionStrategyNames : ResolveConflict(strategy)
    \/ \E strategy \in ResolutionStrategyNames : ResolveConflictThrows(strategy)
    \/ ReturnResolution

----------------------------------------------------------------------------
\* The specifications

Init == IdInit /\ GraphInit /\ CfInit
Next == IdNext
Spec == Init /\ [][Next]_vars
SpecConflicts == Init /\ [][CfNext]_vars

----------------------------------------------------------------------------
\* Direct use of the identity graph: any sequence of addNode / addEdge calls

GraphIdentities == Identities
NodeSources == {"initial", "email"}
NodeConfidences == {3, 9}

CurrentGraph == [nodes |-> graphNodes, edges |-> graphEdges, error |-> graphError]

AddNode(id, metadata) ==
    /\ LET g == addIdentityNode(CurrentGraph, id, metadata)
       IN /\ graphNodes' = g.nodes
          /\ graphEdges' = g.edges
          /\ graphError' = g.error
    /\ graphCall' = [op |-> "addNode", identity |-> id, metadata |-> metadata]
    /\ UNCHANGED <<idVars, cfVars>>

AddEdge(from, to, metadata) ==
    /\ Len(graphEdges) < MaxEdges \/ ~(HasNode(CurrentGraph, from) /\ HasNode(CurrentGraph, to))
    /\ LET g == addIdentityEdge(CurrentGraph, from, to, metadata)
       IN /\ graphNodes' = g.nodes
          /\ graphEdges' = g.edges
          /\ graphError' = g.error
    /\ graphCall' = [op |-> "addEdge", from |-> from, to |-> to, metadata |-> metadata]
    /\ UNCHANGED <<idVars, cfVars>>

GraphNext ==
    \/ \E id \in GraphIdentities, c \in NodeConfidences, src \in NodeSources :
          AddNode(id, [source |-> src, confidence |-> c])
    \/ \E from \in GraphIdentities, to \in GraphIdentities, c \in NodeConfidences :
          AddEdge(from, to, [confidence |-> c])

SpecGraph == Init /\ [][GraphNext]_vars

----------------------------------------------------------------------------
\* Properties of identity resolution

\* the vote has been taken: identityVotes and consensusIdentity are set
Voted == consensusIdentity # NoIdentity

AllSettled == \A i \in Strategies : strategyState[i] # "pending"
CallEnded == idPc \in {"returned", "failed"}

\* positions <<strategy, index>> of the claims for one identity
ClaimPositions(id) ==
    {p \in Strategies \X (1..Len(IdentityKeys)) :
        /\ p[2] <= Len(resolutionResults[p[1]])
        /\ resolutionResults[p[1]][p[2]].identity = id}

RECURSIVE WeightedSum(_)
WeightedSum(positions) ==
    IF positions = {} THEN 0
    ELSE LET p == CHOOSE q \in positions : TRUE
         IN confidenceWeights[p[1]] * resolutionResults[p[1]][p[2]].confidence
            + WeightedSum(positions \ {p})

Claimed == {id \in Identities : ClaimPositions(id) # {}}
VoteOf(id) == identityVotes[VoteIndex(identityVotes, id)]

\* C1: when one strategy fails and another strategy returns claims, the call
\* does not fail because of the failed strategy: the failure is absorbed as
\* an empty claim set and the vote still takes place.
C1_FailedStrategyAbsorbed ==
    ( /\ \E i \in Strategies : strategyState[i] = "rejected"
      /\ \E j \in Strategies : strategyState[j] = "fulfilled" /\ resolutionResults[j] # <<>>
      /\ AllSettled /\ CallEnded )
    => (idError # "StrategyError" /\ Voted)

\* C2: when every strategy has failed or returned no claims, the call fails,
\* and the error is NoIdentityEvidenceError and no other.
C2_NoEvidenceError ==
    ( /\ AllSettled
      /\ \A i \in Strategies : strategyState[i] = "rejected" \/ resolutionResults[i] = <<>>
      /\ CallEnded )
    => (idPc = "failed" /\ idError = "NoIdentityEvidenceError")

\* C3: after the vote, every claimed identity has exactly one entry in
\* identityVotes, whose totalWeight is the sum over its claims of
\* strategy weight * claim confidence, unclaimed identities have none, and an
\* identity whose vote is strictly higher than every other one's is the
\* consensus identity.
C3_WeightedVote ==
    Voted =>
      /\ \A id \in Identities :
            Cardinality({k \in 1..Len(identityVotes) : identityVotes[k].identity = id})
               = IF id \in Claimed THEN 1 ELSE 0
      /\ \A id \in Claimed : VoteOf(id).totalWeight = WeightedSum(ClaimPositions(id))
      /\ \A id \in Claimed :
            (\A other \in Claimed \ {id} :
                WeightedSum(ClaimPositions(id)) > WeightedSum(ClaimPositions(other)))
            => consensusIdentity = id

\* C3 witness: scenario 1, A: 0.9 * 1.0 + 0.3 * 0.5 = 1.05 beats B: 0.8 * 1.0
C3_Scenario1 ==
    /\ Voted
    /\ resolutionResults[1] = <<[identity |-> "A", confidence |-> 9, source |-> "email"]>>
    /\ resolutionResults[2] = <<[identity |-> "A", confidence |-> 3, source |-> "device"]>>
    /\ resolutionResults[3] = <<[identity |-> "B", confidence |-> 8, source |-> "behavioral"]>>
    /\ confidenceWeights[1] = 2 /\ confidenceWeights[2] = 1 /\ confidenceWeights[3] = 2
    /\ VoteOf("A").totalWeight = 21
    /\ VoteOf("B").totalWeight = 16
    /\ consensusIdentity = "A"

\* the identities whose accumulated vote is the maximum
TopTied == {id \in Claimed : \A other \in Claimed :
               WeightedSum(ClaimPositions(id)) >= WeightedSum(ClaimPositions(other))}

\* id is preferred to other by the tie-break rule: more contributing
\* sources, or as many and the lexicographically smaller key
Preferred(id, other) ==
    \/ Cardinality(ClaimPositions(id)) > Cardinality(ClaimPositions(other))
    \/ /\ Cardinality(ClaimPositions(id)) = Cardinality(ClaimPositions(other))
       /\ KeyRank(id) < KeyRank(other)

\* C4: when two or more identities tie for the maximum vote, the consensus
\* identity is the tied identity with the most contributing sources, and
\* among those with as many sources the lexicographically smallest key.
C4_TieBreak ==
    (Voted /\ Cardinality(TopTied) >= 2)
    => /\ consensusIdentity \in TopTied
       /\ \A other \in TopTied \ {consensusIdentity} : Preferred(consensusIdentity, other)

Permuted(f, perm) == [i \in Strategies |-> f[perm[i]]]
Orderings(claims) ==
    {[j \in 1..Len(claims) |-> claims[perm[j]]] : perm \in Permutations(1..Len(claims))}

\* C5: the consensus identity depends only on the set of (weight, claims)
\* pairs: the vote taken over the strategy results in any other order, with
\* the claims of each result in any order, gives the same consensus identity.
C5_OrderIndependent ==
    Voted =>
      \A perm \in Permutations(Strategies) :
        \A results \in [Strategies -> UNION {Orderings(resolutionResults[i]) : i \in Strategies}] :
          (\A i \in Strategies : results[i] \in Orderings(resolutionResults[perm[i]]))
          => TopIdentity(AccumulateVotes(<<>>, results, Permuted(confidenceWeights, perm), 1))
               = consensusIdentity

----------------------------------------------------------------------------
\* Properties of the identity graph

EdgesWellFormed ==
    \A k \in 1..Len(graphEdges) :
        graphEdges[k].from \in DOMAIN graphNodes /\ graphEdges[k].to \in DOMAIN graphNodes

\* C6: in every state reached by addNode / addEdge calls, failed ones
\* included, both endpoints of every stored edge are nodes of the graph; and
\* an addEdge call with an absent endpoint ends in DanglingReferenceError
\* and leaves the edges and the nodes as they were.
C6_GraphWellFormed ==
    /\ []EdgesWellFormed
    /\ [][ ( /\ graphCall'.op = "addEdge"
             /\ ~(graphCall'.from \in DOMAIN graphNodes /\ graphCall'.to \in DOMAIN graphNodes) )
           => ( /\ graphError' = "DanglingReferenceError"
                /\ graphEdges' = graphEdges
                /\ graphNodes' = graphNodes ) ]_vars

\* C6 witness: a graph that holds an edge has just refused an edge to an
\* identity that is not a node
C6_DanglingRefused ==
    /\ graphCall.op = "addEdge"
    /\ graphError = "DanglingReferenceError"
    /\ graphCall.from \in DOMAIN graphNodes
    /\ graphCall.to \notin DOMAIN graphNodes
    /\ Len(graphEdges) >= 1
    /\ EdgesWellFormed

----------------------------------------------------------------------------
\* Properties of conflict resolution

CfEnded == cfPc \in {"returned", "failed"}
Detected == LoopOrder(detectedConflicts)
Logged(conflict) ==
    \E k \in 1..Len(resolutionLog) :
        /\ resolutionLog[k].dimension = conflict.dimension
        /\ resolutionLog[k].conflict = conflict.attribute

\* C7: when a call of resolveConflicts has ended, whichever conflicts
\* succeeded or failed, the length of the resolution log plus the number of
\* remaining conflicts is the number of conflicts the detector reported.
C7_NoDataLoss ==
    CfEnded =>
      Len(resolutionLog) + Cardinality(remainingConflicts) = Len(Detected)

\* C8: when the strategy chosen for a conflict fails with
\* StrategyMismatchError the call does not fail; it returns with that
\* conflict among the remaining conflicts and not in the log, and with every
\* other detected conflict logged.
C8_FailureIsolated ==
    cfError = "StrategyMismatchError" =>
      LET failed == Head(pendingConflicts)
      IN /\ cfPc # "failed"
         /\ cfPc = "returned" =>
              /\ failed \in remainingConflicts
              /\ ~Logged(failed)
              /\ \A k \in 1..Len(Detected) : Detected[k] # failed => Logged(Detected[k])

\* entry x does not come after entry y in (dimension, attribute name) order
LogOrdered(x, y) ==
    \/ DimensionRank(x.dimension) < DimensionRank(y.dimension)
    \/ /\ x.dimension = y.dimension
       /\ AttributeRank(x.conflict) <= AttributeRank(y.conflict)

\* C9: the resolution log a call returns is sorted by dimension and then by
\* attribute name, whatever order the conflicts were detected in.
C9_LogSorted ==
    cfPc = "returned" =>
      \A i, j \in 1..Len(resolutionLog) : i < j => LogOrdered(resolutionLog[i], resolutionLog[j])

\* C10: when a call returns, an attribute whose candidates carry a single
\* distinct value is not among the detected conflicts, has no entry in the
\* resolution log, and the resolved profile holds that value for it.
C10_SingleValueKept ==
    cfPc = "returned" =>
      \A d \in Dimensions, a \in Attributes :
        Cardinality(DistinctValues(profileDimensions[d][a])) = 1 =>
          /\ \A k \in 1..Len(Detected) :
                ~(Detected[k].dimension = d /\ Detected[k].attribute = a)
          /\ ~Logged([dimension |-> d, attribute |-> a])
          /\ ResolvedAttribute(resolvedProfile, d, a) = profileDimensions[d][a][1]

----------------------------------------------------------------------------
\* Properties of addNode

Max(a, b) == IF a > b THEN a ELSE b

\* C11: an addNode call leaves exactly the earlier keys plus its own key in
\* the graph, each once; the node of its key carries the higher of the
\* earlier and the new confidence (the new one when the key is new), every
\* other node and the edges are as before, and making the same call again
\* on the result changes nothing.
C11_AddNodeIdempotent ==
    [][ graphCall'.op = "addNode" =>
          LET id == graphCall'.identity
              metadata == graphCall'.metadata
              after == [nodes |-> graphNodes', edges |-> graphEdges', error |-> graphError']
          IN /\ DOMAIN graphNodes' = DOMAIN graphNodes \cup {id}
             /\ graphNodes'[id].confidence =
                   IF id \in DOMAIN graphNodes
                   THEN Max(graphNodes[id].confidence, metadata.confidence)
                   ELSE metadata.confidence
             /\ metadata.source \in graphNodes'[id].originSources
             /\ \A k \in DOMAIN graphNodes \ {id} : graphNodes'[k] = graphNodes[k]
             /\ graphEdges' = graphEdges
             /\ addIdentityNode(after, id, metadata) = after ]_vars

\* C11 witness: key A, first added with confidence 0.9, has been re-added
\* from another source with confidence 0.3 and still carries 0.9
C11_ReAddedLower ==
    /\ graphCall.op = "addNode"
    /\ graphCall.identity = "A"
    /\ graphCall.metadata.confidence = 3
    /\ "A" \in DOMAIN graphNodes
    /\ graphNodes["A"].confidence = 9
    /\ graphNodes["A"].originSources = {"initial", "email"}

----------------------------------------------------------------------------
\* Properties of the resolution confidence and of the vote

RECURSIVE WeightTotal(_)
WeightTotal(strategies) ==
    IF strategies = {} THEN 0
    ELSE LET i == CHOOSE j \in strategies : TRUE
         IN confidenceWeights[i] + WeightTotal(strategies \ {i})

VoteWeight(votes, id) ==
    IF VoteIndex(votes, id) = 0 THEN 0 ELSE votes[VoteIndex(votes, id)].totalWeight

\* the strategies whose result holds no claim for id
Silent(id) ==
    {i \in Strategies : \A j \in 1..Len(resolutionResults[i]) :
                           resolutionResults[i][j].identity # id}

\* the results with one more claim, by strategy i, for id
WithClaim(i, id, confidence) ==
    [resolutionResults EXCEPT ![i] =
        Append(@, [identity |-> id, confidence |-> confidence, source |-> StrategyNames[i]])]

\* C13: for the claims that were voted on, one more claim with a positive
\* confidence for an identity X, by any strategy that has none for X, gives
\* a vote in which X's accumulated vote is not lower (it is higher by
\* weight * confidence) and every other identity's is the same.
C13_VoteMonotone ==
    idPc = "voted" =>
      \A x \in Identities, c \in ConfidenceLevels :
        \A i \in Silent(x) :
          LET more == AccumulateVotes(<<>>, WithClaim(i, x, c), confidenceWeights, 1)
          IN /\ VoteWeight(more, x) >= VoteWeight(identityVotes, x)
             /\ VoteWeight(more, x) = VoteWeight(identityVotes, x) + confidenceWeights[i] * c
             /\ \A other \in Identities \ {x} :
                   VoteWeight(more, other) = VoteWeight(identityVotes, other)

\* C13 witness: A and B both have votes, and a strategy that made no claim
\* for A can add one, which raises A's vote from 0.9 to 1.2
C13_ClaimAdded ==
    /\ idPc = "voted"
    /\ Claimed = {"A", "B"}
    /\ VoteWeight(identityVotes, "A") = 18
    /\ \E i \in Silent("A") :
          VoteWeight(AccumulateVotes(<<>>, WithClaim(i, "A", 3), confidenceWeights, 1), "A") = 24

----------------------------------------------------------------------------
\* Properties of the graph construction and of the join

\* C14: when the call has ended after the vote, the graph construction has
\* not raised DanglingReferenceError and the call has returned; the nodes of
\* the graph are the initial identifier and the claimed identities, and the
\* graph holds one edge per claim.
C14_GraphBuilt ==
    (Voted /\ CallEnded) =>
      /\ graphError # "DanglingReferenceError"
      /\ idPc = "returned"
      /\ DOMAIN graphNodes = Claimed \cup {initialIdentifier}
      /\ Len(graphEdges) = TotalClaims(resolutionResults)

\* C15: every step that writes the vote accumulator, the consensus identity
\* or the identity graph is a step of the resolving call after its join
\* (the vote or the graph construction), taken when every strategy has
\* completed, and no strategy is running or completing during it.
C15_WritesAfterJoin ==
    [][ ( \/ identityVotes' # identityVotes
          \/ consensusIdentity' # consensusIdentity
          \/ graphNodes' # graphNodes
          \/ graphEdges' # graphEdges )
        => ( /\ \A i \in Strategies : strategyState[i] \in {"fulfilled", "rejected"}
             /\ strategyState' = strategyState
             /\ idPc \in {"joined", "voted"} ) ]_vars

\* C15 witness: three strategies returned a claim each, the vote and the
\* graph were written and the call returned
C15_JoinedThenWritten ==
    /\ idPc = "returned"
    /\ Cardinality({i \in Strategies : resolutionResults[i] # <<>>}) = 3
    /\ Len(identityVotes) = 1
    /\ Len(graphEdges) = 3

----------------------------------------------------------------------------
\* Properties of the resolved profile

\* C16: no step changes what the resolved profile holds for an attribute
\* whose conflict is already resolved and logged: resolving a later conflict,
\* of another attribute of the same dimension in particular, neither
\* overwrites nor drops the earlier resolved value.
C16_ResolvedValuesKept ==
    [][ \A k \in 1..Len(resolutionLog) :
           ResolvedAttribute(resolvedProfile', resolutionLog[k].dimension,
                             resolutionLog[k].conflict)
             = ResolvedAttribute(resolvedProfile, resolutionLog[k].dimension,
                                 resolutionLog[k].conflict) ]_vars

====
